---- MODULE Spec2Model ----
(***************************************************************************)
(* PyImageFormatConverter (src/main.py): the conversion pipeline.          *)
(*                                                                         *)
(* The main thread submits one convert() call per discovered file to a     *)
(* ThreadPoolExecutor of NB_WORKERS threads, waits for every future and    *)
(* writes 'Done.'.  The image codec (PIL) is an external collaborator: the *)
(* result of each open / save / convert call is a nondeterministic choice  *)
(* among returning and raising.                                            *)
(***************************************************************************)
EXTENDS Integers, Sequences, FiniteSets

\* ---------------------------------------------------------------- bounds
MaxFiles == 3      \* longest list of discovered files
MaxWorkers == 2    \* largest --nb-workers value

\* ----------------------------------------------------------- codec values
\* An exception: its class and its message (a sequence of tokens, so that
\* the 'RGBA' in str(ex) test is a search and not a flag).
NoEx == [cls |-> "none", msg |-> <<>>]
RGBAError == [cls |-> "OSError", msg |-> <<"cannot write mode", "RGBA", "as JPEG">>]
ModeError == [cls |-> "OSError", msg |-> <<"cannot write mode", "P", "as JPEG">>]
ValueErr == [cls |-> "ValueError", msg |-> <<"unknown file extension">>]
OpenError == [cls |-> "UnidentifiedImageError", msg |-> <<"cannot identify image file">>]
ConvertError == [cls |-> "ValueError", msg |-> <<"conversion not supported">>]

DiskError == [cls |-> "OSError", msg |-> <<"No space left on device">>]

\* What each codec call may raise.  convert tells the errors of the first
\* save apart by class and message; it treats every error of the open, of
\* the conversion and of the second save alike, so one of each stands for all.
OpenErrors == {OpenError}
SaveErrors == {RGBAError, ModeError, ValueErr}
RetryErrors == {DiskError}

\* 'RGBA' in str(ex)
Contains(msg, tok) == \E k \in 1..Len(msg) : msg[k] = tok

\* isinstance(ex, OSError): the first except clause of convert
IsOSError(ex) == ex.cls = "OSError"

IsTransparencyMessageNever(ex) == FALSE
IsTransparencyMessage(ex) == Contains(ex.msg, "RGBA")

\* image.convert('RGB'): a new image in the channel-less representation
handle_jpg_transparency_identity(image) == image
handle_jpg_transparency(image) == "RGB"

\* ------------------------------------------------------------ the inputs
\* A file type is a string, here a sequence of tokens, so that startswith('.')
\* and the f-string that prepends the '.' are operations on it.
PNG == <<".", "png">>
JPG == <<".", "jpg">>
XYZ == <<".", "xyz">>

\* The file_type and dest_file_type arguments: with and without the leading
\* '.', the empty string, a format the codec does not know.
SourceTypes == {<<"png">>, PNG, <<"xyz">>, XYZ, <<>>}
DestTypes == {<<"jpg">>, JPG, <<"xyz">>, XYZ, <<>>}

\* Image.registered_extensions().keys()
Registered == {PNG, JPG}

\* The source and dest arguments, and what the filesystem holds there.
SourceFolders == {"in", "in.txt", "gone"}
DestFolders == {"out", "out.txt", "gone"}
PathKind(p) ==
    IF p \in {"in", "in/sub", "out"} THEN "dir"
    ELSE IF p \in {"in.txt", "out.txt"} THEN "file"
    ELSE "missing"

\* Path.is_dir() and Path.exists()
is_dir(p) == PathKind(p) = "dir"
exists(p) == PathKind(p) # "missing"

\* The source tree the glob walks: two directories, stems repeating across
\* them (file k and file k+2 have the same stem), and one file of a type
\* the codec does not know.
SourceFile(k) == [parent |-> IF k <= 2 THEN "in" ELSE "in/sub",
                  stem |-> k % 2, suffix |-> PNG]
OtherFile == [parent |-> "in", stem |-> 0, suffix |-> XYZ]

\* parent is folder or a directory below it (the ** of the glob pattern)
Under(parent, folder) == <<folder, parent>> \in {<<"in", "in">>, <<"in", "in/sub">>}

Stems == {0, 1}
Parents == {"in", "in/sub", "out"}
Suffixes == {PNG, JPG, XYZ, <<".">>}
Paths == [parent : Parents, stem : Stems, suffix : Suffixes]

DestPathKeepsParent(source_file_path, cfg) ==
    [parent |-> source_file_path.parent,
     stem |-> source_file_path.stem,
     suffix |-> cfg.DESTINATION_FILE_TYPE]
\* Path(f"{DESTINATION_FOLDER.absolute()}/{source_file_path.stem}{DESTINATION_FILE_TYPE}")
DestPath(source_file_path, cfg) ==
    [parent |-> cfg.DESTINATION_FOLDER,
     stem |-> source_file_path.stem,
     suffix |-> cfg.DESTINATION_FILE_TYPE]

VARIABLES
    tree,        \* the files below the source folder
    fs0,         \* fs as it was when the run began
    stderr,      \* the message of the SystemExit that ended the run, "" if none
    config,      \* the Config record
    all_files,   \* the list of discovered files
    fs,          \* the filesystem as save and exists see it: path -> content
    futures,     \* futures[i]: state of the i-th submitted future
    work_queue,  \* submitted and not yet started, in submission order
    task,        \* task[i]: the activation of convert for all_files[i]
    stdout,      \* stdout[i]: the lines convert wrote for all_files[i]
    done,        \* 'Done.' was written
    pcMain,      \* position of the main thread
    exitStatus   \* exit status of the process, -1 while it runs

vars == <<tree, fs0, stderr, config, all_files, fs, futures, work_queue, task, stdout, done,
          pcMain, exitStatus>>

Files == 1..Len(all_files)

\* The activation record of convert, with two histories the code does not
\* keep: saves (the image handed to each image.save call, in order) and
\* raised / raised_at (the exception that left convert, and the call that
\* raised it).  ex is the exception the first image.save raised.
NoPath == [parent |-> "", stem |-> -1, suffix |-> ""]
NewTask == [pc |-> "new", dest_path |-> NoPath, image |-> "none", handle |-> "none",
            ex |-> NoEx, raised |-> NoEx, raised_at |-> "none", saves |-> <<>>]

\* Content of a path: nothing, a file from before the run, or what the
\* save of task `by` wrote (a save creates the file only when it succeeds).
Absent == [by |-> 0, image |-> "none"]
Old == [by |-> 0, image |-> "old"]

\* Config(args): the parsed arguments, as configure_argument_parser returns
\* them, before check_config.
Init ==
    /\ config \in [NB_WORKERS : 1..MaxWorkers,
                   SOURCE_FOLDER : SourceFolders,
                   DESTINATION_FOLDER : DestFolders,
                   SOURCE_FILE_TYPE : SourceTypes,
                   DESTINATION_FILE_TYPE : DestTypes]
    /\ \E n \in 0..MaxFiles :
         tree = [k \in 1..(n + 1) |-> IF k <= n THEN SourceFile(k) ELSE OtherFile]
    /\ \E rerun \in BOOLEAN :  \* the destination holds an earlier run's output
         fs = [p \in Paths |->
                 IF rerun /\ p.parent = "out" /\ p.suffix = JPG
                 THEN Old ELSE Absent]
    /\ fs0 = fs
    /\ stderr = ""
    /\ all_files = <<>>
    /\ futures = <<>>
    /\ work_queue = <<>>
    /\ task = <<>>
    /\ stdout = <<>>
    /\ done = FALSE
    /\ pcMain = "check_config"
    /\ exitStatus = -1

\* ------------------------------------------------------- check_config
StartsWithDot(ext) == ext # <<>> /\ ext[1] = "."

\* if not ext.startswith('.'): ext = f".{ext}"
NormalizeExtAlways(ext) == <<".">> \o ext
NormalizeExt(ext) == IF StartsWithDot(ext) THEN ext ELSE <<".">> \o ext

\* glob(f"{folder}/**/*{ext}", recursive=True)
Glob(folder, ext) ==
    SelectSeq(tree, LAMBDA f : Under(f.parent, folder) /\ f.suffix = ext)

CheckOrderNoFormats ==
    <<"source_is_dir", "dest_is_dir", "source_exists", "dest_exists",
      "matching_files">>
CheckOrderExistsFirst ==
    <<"source_exists", "dest_exists", "source_is_dir", "dest_is_dir",
      "matching_files", "dest_format", "source_format">>
\* The checks of check_config, in the order of its if statements.
CheckOrder ==
    <<"source_is_dir", "dest_is_dir", "source_exists", "dest_exists",
      "matching_files", "dest_format", "source_format">>

\* The condition under which each check raises SystemExit.
Fails(check, cfg) ==
    CASE check = "source_is_dir" -> ~is_dir(cfg.SOURCE_FOLDER)
      [] check = "dest_is_dir" -> ~is_dir(cfg.DESTINATION_FOLDER)
      [] check = "source_exists" -> ~exists(cfg.SOURCE_FOLDER)
      [] check = "dest_exists" -> ~exists(cfg.DESTINATION_FOLDER)
      [] check = "matching_files" ->
             Glob(cfg.SOURCE_FOLDER, cfg.SOURCE_FILE_TYPE) = <<>>
      [] check = "dest_format" -> cfg.DESTINATION_FILE_TYPE \notin Registered
      [] check = "source_format" -> cfg.SOURCE_FILE_TYPE \notin Registered

\* The message of each SystemExit.
Message(check) ==
    CASE check = "source_is_dir" -> "Error: Source path does not lead to a directory"
      [] check = "dest_is_dir" -> "Error: Destination path does not lead to a directory"
      [] check = "source_exists" -> "Error: Source folder does not exist"
      [] check = "dest_exists" -> "Error: Destination folder does not exist"
      [] check = "matching_files" -> "Error: Source folder does not contain any file of type"
      [] check = "dest_format" -> "Error: Desired conversion format is not supported"
      [] check = "source_format" -> "Error: Source image format is not supported"

\* check_config after the normalisation: the message of the first check
\* that fails, "" when none does.
check_config(cfg) ==
    LET failing == {k \in 1..Len(CheckOrder) : Fails(CheckOrder[k], cfg)} IN
    IF failing = {} THEN ""
    ELSE Message(CheckOrder[CHOOSE k \in failing : \A m \in failing : k <= m])

\* check_config(config): both file types are normalised in place, then the
\* first failing check ends the process with its message and status 1.
CheckConfig ==
    /\ pcMain = "check_config"
    /\ LET cfg == [config EXCEPT
                     !.SOURCE_FILE_TYPE = NormalizeExt(@),
                     !.DESTINATION_FILE_TYPE = NormalizeExt(@)]
           msg == check_config(cfg)
       IN
       /\ config' = cfg
       /\ stderr' = msg
       /\ pcMain' = IF msg = "" THEN "glob" ELSE "exited"
       /\ exitStatus' = IF msg = "" THEN exitStatus ELSE 1
    /\ UNCHANGED <<tree, fs0, all_files, fs, futures, work_queue, task, stdout, done>>

\* all_files = [Path(file) for file in glob(...)]
Discover ==
    /\ pcMain = "glob"
    /\ all_files' = Glob(config.SOURCE_FOLDER, config.SOURCE_FILE_TYPE)
    /\ task' = [k \in 1..Len(all_files') |-> NewTask]
    /\ stdout' = [k \in 1..Len(all_files') |-> <<>>]
    /\ pcMain' = "submit"
    /\ UNCHANGED <<tree, fs0, stderr, config, fs, futures, work_queue, done, exitStatus>>

\* ------------------------------------------------------------- the pool
\* ThreadPoolExecutor(max_workers=config.NB_WORKERS)
MaxWorkersPlusOne(cfg) == cfg.NB_WORKERS + 1
PoolSize(cfg) == cfg.NB_WORKERS

Running == {i \in 1..Len(futures) : futures[i] = "running"}

\* A future as_completed yields: finished, by return or by exception.
CompletedOnlyReturned(fut) == fut = "returned"
Completed(fut) == fut \in {"returned", "raised"}

\* The body of the as_completed loop: the future is counted, its result is
\* never asked for.
OnCompletedResult(fut) == IF fut = "raised" THEN "raise" ELSE "ok"
OnCompleted(fut) == "ok"

\* What the main thread waits for before it leaves the with block.
AllSubmitted == Len(futures) = Len(all_files)
AllCompleted ==
    /\ Len(futures) = Len(all_files)
    /\ \A i \in 1..Len(futures) : Completed(futures[i])

\* executor.submit(convert, file, config), one file of the comprehension
Submit ==
    /\ pcMain = "submit"
    /\ Len(futures) < Len(all_files)
    /\ futures' = Append(futures, "pending")
    /\ work_queue' = Append(work_queue, Len(futures) + 1)
    /\ pcMain' = IF Len(futures) + 1 = Len(all_files) THEN "wait" ELSE "submit"
    /\ UNCHANGED <<tree, fs0, stderr, config, all_files, fs, task, stdout, done, exitStatus>>

\* A pool thread takes the oldest queued work item and enters convert.
Start(i) ==
    /\ work_queue # <<>>
    /\ i = Head(work_queue)
    /\ Cardinality(Running) < PoolSize(config)
    /\ work_queue' = Tail(work_queue)
    /\ futures' = [futures EXCEPT ![i] = "running"]
    /\ task' = [task EXCEPT ![i].pc = "open",
                            ![i].dest_path = DestPath(all_files[i], config)]
    /\ UNCHANGED <<tree, fs0, stderr, config, all_files, fs, stdout, done, pcMain, exitStatus>>

\* ------------------------------------------------------------- convert
ErrorLine(i, ex) == [kind |-> "error", path |-> all_files[i], msg |-> ex.msg]
ExistsLine(i) == [kind |-> "exists", path |-> task[i].dest_path, msg |-> <<>>]
TransparencyLine(i, ex) ==
    [kind |-> "transparency", path |-> all_files[i], msg |-> ex.msg]

Written(i, image) == [by |-> i, image |-> image]

\* dest_path.exists()
FileExistsNever(path) == FALSE
FileExistsAlways(path) == TRUE
FileExists(path) == fs[path] # Absent

\* image.save(dest_path, ...) that succeeds: the file is opened for writing,
\* whatever was there is replaced.
KeepExisting(old, new) == IF old = Absent THEN new ELSE old
Overwrite(old, new) == new

\* The end of the with block: the opened image is closed on every way out.
WithExitLeak(handle) == handle
WithExit(handle) == IF handle = "open" THEN "closed" ELSE handle

\* with Image.open(source_file_path) as image: the open is outside the try
Open(i) ==
    /\ task[i].pc = "open"
    /\ \E r \in {NoEx} \cup OpenErrors :
         IF r = NoEx
         THEN /\ task' = [task EXCEPT ![i].pc = "check", ![i].image = "orig",
                                      ![i].handle = "open"]
              /\ UNCHANGED futures
         ELSE /\ task' = [task EXCEPT ![i].pc = "end", ![i].raised = r,
                                      ![i].raised_at = "open"]
              /\ futures' = [futures EXCEPT ![i] = "raised"]
    /\ UNCHANGED <<tree, fs0, stderr, config, all_files, fs, work_queue, stdout, done, pcMain, exitStatus>>

\* if dest_path.exists(): tqdm.write("Warning: ... already exists")
CheckExists(i) ==
    /\ task[i].pc = "check"
    /\ LET found == FileExists(task[i].dest_path) IN
         /\ task' = [task EXCEPT ![i].pc = "save"]
         /\ stdout' = [stdout EXCEPT
                         ![i] = IF found THEN Append(@, ExistsLine(i)) ELSE @]
    /\ UNCHANGED <<tree, fs0, stderr, config, all_files, fs, futures, work_queue, done, pcMain, exitStatus>>

\* The first image.save, and the except Exception clause for what it raises
\* that is no OSError; the with block closes the image on the way out.
Save(i) ==
    /\ task[i].pc = "save"
    /\ \E r \in {NoEx} \cup SaveErrors :
         LET saves == Append(task[i].saves, task[i].image) IN
         IF r = NoEx
         THEN /\ fs' = [fs EXCEPT ![task[i].dest_path] = Overwrite(@, Written(i, task[i].image))]
              /\ task' = [task EXCEPT ![i].pc = "end", ![i].saves = saves,
                                      ![i].handle = WithExit(@)]
              /\ futures' = [futures EXCEPT ![i] = "returned"]
              /\ UNCHANGED stdout
         ELSE IF IsOSError(r)
         THEN /\ task' = [task EXCEPT ![i].pc = "except", ![i].saves = saves,
                                      ![i].ex = r]
              /\ UNCHANGED <<fs, futures, stdout>>
         ELSE /\ task' = [task EXCEPT ![i].pc = "end", ![i].saves = saves,
                                      ![i].ex = r, ![i].handle = WithExit(@)]
              /\ stdout' = [stdout EXCEPT ![i] = Append(@, ErrorLine(i, r))]
              /\ futures' = [futures EXCEPT ![i] = "returned"]
              /\ UNCHANGED fs
    /\ UNCHANGED <<tree, fs0, stderr, config, all_files, work_queue, done, pcMain, exitStatus>>

ExceptOSErrorLoop(i) ==
    /\ task[i].pc = "except"
    /\ Len(task[i].saves) < 4
    /\ task' = [task EXCEPT ![i].saves = Append(@, task[i].image)]
    /\ UNCHANGED <<tree, fs0, stderr, config, all_files, fs, futures, work_queue,
                   stdout, done, pcMain, exitStatus>>
\* except OSError as ex: the warning and the conversion under the RGBA test,
\* then the second image.save, which is outside the test.  What the handler
\* raises is not caught by the sibling except Exception clause: it leaves
\* convert and ends in the future.
ExceptOSError(i) ==
    /\ task[i].pc = "except"
    /\ LET ex == task[i].ex
           rgba == IsTransparencyMessage(ex)
           warned == IF rgba THEN Append(stdout[i], TransparencyLine(i, ex))
                     ELSE stdout[i]
       IN
       /\ stdout' = [stdout EXCEPT ![i] = warned]
       /\ \/ \* image.convert('RGB') raises
             /\ rgba
             /\ task' = [task EXCEPT ![i].pc = "end", ![i].handle = WithExit(@),
                                     ![i].raised = ConvertError,
                                     ![i].raised_at = "convert"]
             /\ futures' = [futures EXCEPT ![i] = "raised"]
             /\ UNCHANGED fs
          \/ \E r \in {NoEx} \cup RetryErrors :
               LET image == IF rgba THEN handle_jpg_transparency(task[i].image)
                            ELSE task[i].image
                   saves == Append(task[i].saves, image)
               IN
               IF r = NoEx
               THEN /\ fs' = [fs EXCEPT ![task[i].dest_path] = Overwrite(@, Written(i, image))]
                    /\ task' = [task EXCEPT ![i].pc = "end", ![i].image = image,
                                            ![i].saves = saves, ![i].handle = WithExit(@)]
                    /\ futures' = [futures EXCEPT ![i] = "returned"]
               ELSE /\ task' = [task EXCEPT ![i].pc = "end", ![i].image = image,
                                            ![i].saves = saves, ![i].handle = WithExit(@),
                                            ![i].raised = r, ![i].raised_at = "retry"]
                    /\ futures' = [futures EXCEPT ![i] = "raised"]
                    /\ UNCHANGED fs
    /\ UNCHANGED <<tree, fs0, stderr, config, all_files, work_queue, done, pcMain, exitStatus>>

\* ------------------------------------------------------ the main thread
\* list(tqdm(as_completed(futures))) and the exit of the with block
\* (shutdown(wait=True)): the main thread goes on when every future is
\* finished; an exception raised in the loop body would leave the program.
WaitAll ==
    /\ pcMain = "wait"
    /\ AllCompleted
    /\ pcMain' = IF \E i \in 1..Len(futures) : OnCompleted(futures[i]) = "raise"
                 THEN "failed" ELSE "joined"
    /\ UNCHANGED <<tree, fs0, stderr, config, all_files, fs, futures, work_queue, task, stdout, done,
                   exitStatus>>

\* tqdm.write('Done.') and the end of the script
Done ==
    /\ pcMain \in {"joined", "failed"}
    /\ done' = (pcMain = "joined")
    /\ exitStatus' = IF pcMain = "joined" THEN 0 ELSE 1
    /\ pcMain' = "exited"
    /\ UNCHANGED <<tree, fs0, stderr, config, all_files, fs, futures, work_queue, task, stdout>>

Convert(i) ==
    /\ i \in Files
    /\ (Start(i) \/ Open(i) \/ CheckExists(i) \/ Save(i) \/ ExceptOSError(i))

Main == CheckConfig \/ Discover \/ Submit \/ WaitAll \/ Done

Next ==
    \/ CheckConfig
    \/ Discover
    \/ Submit
    \/ WaitAll
    \/ Done
    \/ \E i \in Files : Start(i)
    \/ \E i \in Files : Open(i)
    \/ \E i \in Files : CheckExists(i)
    \/ \E i \in Files : Save(i)
    \/ \E i \in Files : ExceptOSError(i)

Spec == Init /\ [][Next]_vars

\* Every codec call returns or raises and every thread is scheduled.
FairSpec ==
    /\ Init /\ [][Next]_vars
    /\ WF_vars(Main)
    /\ \A i \in 1..MaxFiles : WF_vars(Convert(i))

TypeOK ==
    /\ pcMain \in {"check_config", "glob", "submit", "wait", "joined", "failed", "exited"}
    /\ exitStatus \in {-1, 0, 1}
    /\ \A i \in 1..Len(futures) : futures[i] \in {"pending", "running", "returned", "raised"}
    /\ \A i \in Files : task[i].pc \in {"new", "open", "check", "save", "except", "end"}

\* ------------------------------------------------------------ the claims
Lines(i) == {stdout[i][k] : k \in 1..Len(stdout[i])}
HasLine(i, kind) == \E l \in Lines(i) : l.kind = kind
Ended(i) == task[i].pc = "end"
FirstSaveFailed(i) == task[i].ex # NoEx
FirstSaveFailedRGBA(i) ==
    /\ task[i].ex.cls = "OSError"
    /\ Contains(task[i].ex.msg, "RGBA")

\* The Conversion Outcomes a finished task has produced: Failure is an error
\* line for the file, the two successes are a normal return without one.
Outcomes(i) ==
    {o \in {"Success", "SuccessWithWarning", "Failure"} :
        \/ o = "Failure" /\ HasLine(i, "error")
        \/ /\ o = "SuccessWithWarning"
           /\ futures[i] = "returned" /\ ~HasLine(i, "error") /\ stdout[i] # <<>>
        \/ o = "Success" /\ futures[i] = "returned" /\ stdout[i] = <<>>}

\* C1: when 'Done.' is written, every discovered file has produced exactly
\* one Conversion Outcome (Success, SuccessWithWarning or Failure).
C1_ExactlyOneOutcome ==
    done => \A i \in Files : Cardinality(Outcomes(i)) = 1

\* C2: no exception leaves convert: no future ever holds an exception.
C2_NoEscape == \A i \in 1..Len(futures) : futures[i] # "raised"

\* C3: a first save that fails with a message without 'RGBA' is never
\* followed by a second save call for that file.
C3_NoRetryWithoutRGBA ==
    \A i \in Files :
        (FirstSaveFailed(i) /\ ~Contains(task[i].ex.msg, "RGBA"))
            => Len(task[i].saves) <= 1

\* C4: after a first save that fails with an OSError mentioning 'RGBA', save
\* is called at most once more, and that second call is given the image
\* converted to RGB, never the image the first call was given.
C4_TransparencyRetry ==
    \A i \in Files :
        FirstSaveFailedRGBA(i) =>
            /\ Len(task[i].saves) <= 2
            /\ Len(task[i].saves) = 2 =>
                 (task[i].saves[2] = "RGB" /\ task[i].saves[2] # task[i].saves[1])

C4_Witness ==
    \E i \in Files :
        /\ FirstSaveFailedRGBA(i)
        /\ Ended(i)
        /\ task[i].saves = <<"orig", "RGB">>

\* C5: when the first save fails with a transparency error and the retry
\* fails too, the task writes an error line with the source path and the
\* error text, and has called save exactly twice.
C5_RetryFailureReported ==
    \A i \in Files :
        (FirstSaveFailedRGBA(i) /\ task[i].raised_at = "retry") =>
            /\ ErrorLine(i, task[i].raised) \in Lines(i)
            /\ Len(task[i].saves) = 2

\* C6: a task whose open fails, or whose first save fails with a message
\* without 'RGBA', ends with an error line naming the source file and the
\* error text.
C6_FailureReported ==
    \A i \in Files :
        /\ (Ended(i) /\ task[i].raised_at = "open")
               => ErrorLine(i, task[i].raised) \in Lines(i)
        /\ (Ended(i) /\ FirstSaveFailed(i) /\ ~Contains(task[i].ex.msg, "RGBA"))
               => ErrorLine(i, task[i].ex) \in Lines(i)

\* C7: at most NB_WORKERS conversion tasks have started and not finished.
C7_ConcurrencyBound == Cardinality(Running) <= config.NB_WORKERS

C7_Witness ==
    /\ config.NB_WORKERS = MaxWorkers
    /\ Cardinality(Running) = config.NB_WORKERS
    /\ work_queue # <<>>

\* C8: 'Done.' is written only when every submitted task has finished, and
\* once it is written no task starts, moves or writes a line.
C8_DoneAfterAllTasks ==
    /\ [](done => /\ Len(futures) = Len(all_files)
                  /\ \A i \in Files : futures[i] \in {"returned", "raised"}
                  /\ \A i \in Files : Ended(i))
    /\ [][done => (task' = task /\ stdout' = stdout /\ futures' = futures)]_vars

C8_Witness ==
    /\ done
    /\ Len(all_files) = MaxFiles
    /\ \E i \in Files : HasLine(i, "error")
    /\ \E i \in Files : HasLine(i, "transparency")

\* C9: under fair scheduling every run that passes check_config ends:
\* every task finishes and 'Done.' is written, also when tasks fail or raise.
C9_Terminates ==
    (pcMain = "glob") ~>
        (/\ done
         /\ pcMain = "exited"
         /\ Len(futures) = Len(all_files)
         /\ \A i \in Files : Ended(i) /\ futures[i] \in {"returned", "raised"})

C9_Witness ==
    /\ done
    /\ pcMain = "exited"
    /\ \E i \in Files : task[i].raised_at = "open"
    /\ \E i \in Files : task[i].raised_at = "retry"

\* C10: failing tasks do not fail the dispatcher: the main thread never
\* raises, and the process ends with status 0 after every task, the ones
\* after a failed one included, was started and ran to its end.
C10_FailureIsolation ==
    /\ pcMain # "failed"
    /\ stderr = "" => exitStatus \in {-1, 0}
    /\ (pcMain = "exited" /\ stderr = "") =>
         /\ exitStatus = 0
         /\ done
         /\ \A i \in Files : Ended(i) /\ task[i].dest_path # NoPath

C10_Witness ==
    /\ pcMain = "exited"
    /\ exitStatus = 0
    /\ \E i, j \in Files :
         /\ i < j
         /\ futures[i] = "raised"
         /\ futures[j] = "returned"
         /\ fs[task[j].dest_path] = Written(j, "orig")

\* A configuration error, in the words of the claim: a folder that is no
\* existing directory, no file of the source type, a type the codec does
\* not know.
LeadingDot(ext) == Len(ext) > 0 /\ Head(ext) = "."
WithDot(ext) == IF LeadingDot(ext) THEN ext ELSE <<".">> \o ext
HasMatchingFile ==
    \E k \in 1..Len(tree) :
        /\ tree[k].parent \in {"in", "in/sub"}
        /\ config.SOURCE_FOLDER = "in"
        /\ tree[k].suffix = WithDot(config.SOURCE_FILE_TYPE)
ConfigurationError ==
    \/ PathKind(config.SOURCE_FOLDER) # "dir"
    \/ PathKind(config.DESTINATION_FOLDER) # "dir"
    \/ ~HasMatchingFile
    \/ WithDot(config.SOURCE_FILE_TYPE) \notin {PNG, JPG}
    \/ WithDot(config.DESTINATION_FILE_TYPE) \notin {PNG, JPG}

\* C11: with a configuration error the run ends with a non-zero status and
\* a message, no task is ever submitted, no source is opened and nothing is
\* written to the destination.
C11_ConfigErrorAborts ==
    ConfigurationError =>
        /\ all_files = <<>> /\ futures = <<>> /\ work_queue = <<>> /\ task = <<>>
        /\ fs = fs0
        /\ ~done
        /\ pcMain \in {"check_config", "exited"}
        /\ pcMain = "exited" => (exitStatus = 1 /\ stderr # "")

C11_Witness ==
    /\ pcMain = "exited"
    /\ exitStatus = 1
    /\ config.DESTINATION_FILE_TYPE = XYZ
    /\ stderr = "Error: Desired conversion format is not supported"
    /\ futures = <<>>

\* C12: the destination path of every started task is
\* <destination folder>/<source stem><destination type>, whatever the
\* directory of the source; sources with one stem share one destination.
C12_DestPathFunction ==
    /\ \A i \in Files :
         task[i].pc # "new" =>
             task[i].dest_path = [parent |-> config.DESTINATION_FOLDER,
                                  stem |-> all_files[i].stem,
                                  suffix |-> config.DESTINATION_FILE_TYPE]
    /\ \A i, j \in Files :
         (/\ task[i].pc # "new" /\ task[j].pc # "new"
          /\ all_files[i].stem = all_files[j].stem)
             => task[i].dest_path = task[j].dest_path

C12_Witness ==
    \E i, j \in Files :
        /\ all_files[i].parent # all_files[j].parent
        /\ all_files[i].stem = all_files[j].stem
        /\ task[i].pc # "new" /\ task[j].pc # "new"
        /\ task[i].dest_path = task[j].dest_path
        /\ task[i].dest_path.parent = "out"

\* C13: the step over the exists check writes the 'already exists' line
\* exactly when the destination exists at that moment, before any save,
\* and goes on to the first save either way; a warned task does call save.
C13_ExistsWarning ==
    /\ [][\A i \in Files :
            (task[i].pc = "check" /\ task'[i].pc # "check") =>
                /\ task'[i].pc = "save"
                /\ task'[i].saves = <<>>
                /\ stdout'[i] =
                     IF fs[task[i].dest_path] # Absent
                     THEN Append(stdout[i], [kind |-> "exists",
                                             path |-> task[i].dest_path,
                                             msg |-> <<>>])
                     ELSE stdout[i]]_vars
    /\ [][\A i \in Files :
            (task[i].pc = "save" /\ task'[i].pc # "save") =>
                Len(task'[i].saves) = 1]_vars
    /\ [](\A i \in Files :
            (Ended(i) /\ HasLine(i, "exists")) =>
                (stdout[i][1].kind = "exists" /\ Len(task[i].saves) >= 1))

C13_Witness ==
    \E i \in Files :
        /\ Len(stdout[i]) = 1
        /\ stdout[i][1].kind = "exists"
        /\ fs0[task[i].dest_path] = Old
        /\ fs[task[i].dest_path] = [by |-> i, image |-> "orig"]

\* C14: check_config leaves a file type that starts with '.' unchanged and
\* prepends one '.' to any other; normalising the result again changes nothing.
C14_NormalizeIdempotent ==
    [][pcMain = "check_config" =>
         \A f \in {"SOURCE_FILE_TYPE", "DESTINATION_FILE_TYPE"} :
             /\ LeadingDot(config[f]) => config'[f] = config[f]
             /\ ~LeadingDot(config[f]) => config'[f] = <<".">> \o config[f]
             /\ NormalizeExt(config'[f]) = config'[f]]_vars

C14_Witness ==
    /\ pcMain = "exited"
    /\ config.SOURCE_FILE_TYPE = <<".">>
    /\ config.DESTINATION_FILE_TYPE = JPG

\* C15: a task whose first save fails with a transparency error and whose
\* retry succeeds is a SuccessWithWarning: one transparency line, no error
\* line, and the destination written from the RGB image.
TransparencyLines(i) == {k \in 1..Len(stdout[i]) : stdout[i][k].kind = "transparency"}

C15_AlphaScenario ==
    /\ [](\A i \in Files :
            (FirstSaveFailedRGBA(i) /\ futures[i] = "returned") =>
                /\ Outcomes(i) = {"SuccessWithWarning"}
                /\ Cardinality(TransparencyLines(i)) = 1
                /\ ~HasLine(i, "error")
                /\ task[i].saves = <<"orig", "RGB">>)
    /\ [][\A i \in Files :
            (/\ task[i].pc = "except" /\ FirstSaveFailedRGBA(i)
             /\ futures'[i] = "returned") =>
                fs'[task[i].dest_path] = [by |-> i, image |-> "RGB"]]_vars

C15_Witness ==
    \E i \in Files :
        /\ FirstSaveFailedRGBA(i)
        /\ futures[i] = "returned"
        /\ Len(stdout[i]) = 1
        /\ fs[task[i].dest_path] = [by |-> i, image |-> "RGB"]

\* C16: tasks with one destination all run to their end; every save that
\* succeeds replaces the content of the destination, and nothing else
\* changes it, so that the content is that of the last successful save.
SavedOK(i) == Ended(i) /\ futures[i] = "returned" /\ ~HasLine(i, "error")

C16_LastWriterWins ==
    /\ [](pcMain = "exited" /\ stderr = "" => \A i \in Files : Ended(i))
    /\ [][\A i \in 1..Len(futures) :
            (futures[i] = "running" /\ futures'[i] = "returned"
             /\ ~(\E k \in 1..Len(stdout'[i]) : stdout'[i][k].kind = "error")) =>
                /\ fs'[task[i].dest_path].by = i
                /\ fs'[task[i].dest_path].image = task'[i].saves[Len(task'[i].saves)]]_vars
    /\ [][\A p \in Paths :
            fs'[p] # fs[p] =>
                \E i \in 1..Len(futures) :
                    /\ task[i].dest_path = p
                    /\ futures[i] = "running" /\ futures'[i] = "returned"
                    /\ fs'[p].by = i]_vars

C16_Witness ==
    \E i, j \in Files :
        /\ i < j
        /\ SavedOK(i) /\ SavedOK(j)
        /\ task[i].dest_path = task[j].dest_path
        /\ fs0[task[i].dest_path] = Absent
        /\ fs[task[i].dest_path].by = i
        /\ HasLine(i, "exists")

\* C17: a task that has ended holds no open image; the open images never
\* outnumber the workers, and none is open when 'Done.' is written.
OpenHandles == {i \in Files : task[i].handle = "open"}

C17_HandlesReleased ==
    /\ \A i \in Files : Ended(i) => task[i].handle # "open"
    /\ Cardinality(OpenHandles) <= config.NB_WORKERS
    /\ done => OpenHandles = {}

C17_Witness ==
    /\ done
    /\ \E i \in Files : task[i].raised_at = "retry" /\ task[i].handle = "closed"
    /\ \E i \in Files : task[i].ex = ValueErr /\ task[i].handle = "closed"
    /\ \E i \in Files : task[i].saves = <<"orig", "RGB">> /\ SavedOK(i)
                        /\ task[i].handle = "closed"

\* C18: no task calls save more than twice.
C18_AtMostTwoSaves == \A i \in Files : Len(task[i].saves) <= 2

C18_Witness ==
    \E i \in Files :
        /\ Len(task[i].saves) = 2
        /\ task[i].ex = ModeError
        /\ task[i].raised_at = "retry"

\* C19: of two tasks, and no third, with one destination that did not exist
\* when the run began, at most one writes the 'already exists' line.
C19_ExistsRace ==
    \A i, j \in Files :
        (/\ i # j
         /\ task[i].pc # "new" /\ task[j].pc # "new"
         /\ task[i].dest_path = task[j].dest_path
         /\ \A k \in Files : all_files[k].stem = all_files[i].stem => k \in {i, j}
         /\ fs0[task[i].dest_path] = Absent)
            => ~(HasLine(i, "exists") /\ HasLine(j, "exists"))

\* The interleaving of C19 in which neither task warns and the second save
\* overwrites the first.
C19_Witness ==
    \E i, j \in Files :
        /\ i < j
        /\ SavedOK(i) /\ SavedOK(j)
        /\ task[i].dest_path = task[j].dest_path
        /\ fs0[task[i].dest_path] = Absent
        /\ ~HasLine(i, "exists") /\ ~HasLine(j, "exists")
        /\ fs[task[i].dest_path].by = j

\* C20: check_config reports the first check that fails, in the order
\* source is_dir, destination is_dir, matching files, destination format,
\* source format; a missing folder gets the 'does not lead to a directory'
\* message and the two 'folder does not exist' messages never appear.
C20_CheckOrder ==
    pcMain # "check_config" =>
        LET srcDir == PathKind(config.SOURCE_FOLDER) = "dir"
            dstDir == PathKind(config.DESTINATION_FOLDER) = "dir"
            dstOK == config.DESTINATION_FILE_TYPE \in {PNG, JPG}
            srcOK == config.SOURCE_FILE_TYPE \in {PNG, JPG}
        IN
        /\ ~srcDir => stderr = "Error: Source path does not lead to a directory"
        /\ (srcDir /\ ~dstDir) =>
               stderr = "Error: Destination path does not lead to a directory"
        /\ (srcDir /\ dstDir /\ ~HasMatchingFile) =>
               stderr = "Error: Source folder does not contain any file of type"
        /\ (srcDir /\ dstDir /\ HasMatchingFile /\ ~dstOK) =>
               stderr = "Error: Desired conversion format is not supported"
        /\ (srcDir /\ dstDir /\ HasMatchingFile /\ dstOK /\ ~srcOK) =>
               stderr = "Error: Source image format is not supported"
        /\ stderr \notin {"Error: Source folder does not exist",
                          "Error: Destination folder does not exist"}

C20_Witness ==
    /\ pcMain = "exited"
    /\ PathKind(config.SOURCE_FOLDER) = "missing"
    /\ PathKind(config.DESTINATION_FOLDER) = "missing"
    /\ stderr = "Error: Source path does not lead to a directory"
====
